---- MODULE Spec2Model ----
(***************************************************************************)
(* Model of moveto.py (gryf/moveto): cycling the focused window through    *)
(* the left-half / maximized / right-half placements of a row of monitors. *)
(*                                                                         *)
(* One invocation of `moveto move --left|--right` is one step: it queries  *)
(* the monitors (xrandr), the dock candidates (xwininfo), the WindowMaker  *)
(* configuration file and the active window (xdotool), computes a target   *)
(* rectangle and emits one xdotool command line.  The only thing that      *)
(* survives an invocation is the window itself, as xdotool reports it.     *)
(*                                                                         *)
(* Python's `/` is true division; it is applied here only to even numbers  *)
(* (see calculate_columns), where it is exact, and to the mouse target,    *)
(* which is therefore kept in half pixels.                                 *)
(***************************************************************************)
EXTENDS Integers, Sequences, FiniteSets, TLC

(***************************************************************************)
(* Bounds of the model                                                     *)
(***************************************************************************)
MaxMon == 2
MaxDock == 1

Widths == {1921, 3840}
ScreenHeight == 1080
MonitorNames == <<"DP-1", "DP-2", "DP-3", "DP-4">>
MainArgs == {"", "DP-2"}
DockShifts == {1920}
Arrangements == {"row", "reversed", "mirrored"}
Directions == {"left", "right"}
Queries == {"ok", "short", "nopos", "nogeom"}

(***************************************************************************)
(* Values of the program                                                   *)
(***************************************************************************)
\* the "Relative upper-left Y" value xwininfo reports for the active window
Magic == 21
MAGIC_NO == Magic * 2 + 1
DECORATIONS_HEIGHT == Magic + 8

\* Python's None in a window's pos_x, pos_y, x, y (no reported value is so low)
None == -100000

DockSize == 64
Border == 2
Tolerance == 32
MisbehavingShift == 21

Rect(px, py, sx, sy) == [pos_x |-> px, pos_y |-> py, size_x |-> sx, size_y |-> sy]

\* a in range(lo, hi)
InRange(a, lo, hi) == a # None /\ lo <= a /\ a < hi

(***************************************************************************)
(* Screen and its layout                                                   *)
(***************************************************************************)
\* the rectangles starting at the monitor's own y origin
Screen_at_origin(x, y, sx, sy) ==
    [x |-> x, y |-> y, x_shift |-> sx, y_shift |-> sy, main |-> FALSE,
     left_half |-> Rect(0, sy, 0, 0),
     right_half |-> Rect(0, sy, 0, 0),
     maximized |-> Rect(0, sy, 0, 0)]

Screen(x, y, sx, sy) ==
    [x |-> x, y |-> y, x_shift |-> sx, y_shift |-> sy, main |-> FALSE,
     left_half |-> Rect(0, 0, 0, 0),
     right_half |-> Rect(0, 0, 0, 0),
     maximized |-> Rect(0, 0, 0, 0)]

\* Conf(): the class defaults, overridden by the lines of the file
Conf(file) ==
    [cover_miniwindows |-> ~file.icons_yes,
     cover_dock |-> file.dock_no]

\* both halves sx / 2 wide
calculate_columns_equal_halves(scr, conf) ==
    LET sx0 == IF scr.x % 2 # 0 THEN scr.x - 1 ELSE scr.x
        sx == IF scr.main /\ ~conf.cover_dock
              THEN sx0 - (DockSize + Border)
              ELSE sx0 - Border
        sy == IF ~conf.cover_miniwindows
              THEN scr.y - (DockSize + Border)
              ELSE scr.y
    IN [scr EXCEPT
          !.x = sx,
          !.y = sy,
          !.left_half = Rect(scr.x_shift, @.pos_y, sx \div 2,
                             sy - DECORATIONS_HEIGHT),
          !.right_half = Rect(sx \div 2 + scr.x_shift, @.pos_y, sx \div 2,
                              sy - DECORATIONS_HEIGHT),
          !.maximized = Rect(scr.x_shift, @.pos_y, sx,
                             sy - DECORATIONS_HEIGHT)]

\* the room for the dock taken off every screen, main or not
calculate_columns_dock_everywhere(scr, conf) ==
    LET sx0 == IF scr.x % 2 # 0 THEN scr.x - 1 ELSE scr.x
        sx == IF ~conf.cover_dock
              THEN sx0 - (DockSize + Border)
              ELSE sx0 - Border
        sy == IF ~conf.cover_miniwindows
              THEN scr.y - (DockSize + Border)
              ELSE scr.y
    IN [scr EXCEPT
          !.x = sx,
          !.y = sy,
          !.left_half = Rect(scr.x_shift, @.pos_y, sx \div 2 - 1,
                             sy - DECORATIONS_HEIGHT),
          !.right_half = Rect(sx \div 2 + scr.x_shift, @.pos_y, sx \div 2,
                              sy - DECORATIONS_HEIGHT),
          !.maximized = Rect(scr.x_shift, @.pos_y, sx,
                             sy - DECORATIONS_HEIGHT)]

\* an odd width kept as it is
calculate_columns_odd_kept(scr, conf) ==
    LET sx == IF scr.main /\ ~conf.cover_dock
              THEN scr.x - (DockSize + Border)
              ELSE scr.x - Border
        sy == IF ~conf.cover_miniwindows
              THEN scr.y - (DockSize + Border)
              ELSE scr.y
    IN [scr EXCEPT
          !.x = sx,
          !.y = sy,
          !.left_half = Rect(scr.x_shift, @.pos_y, sx \div 2 - 1,
                             sy - DECORATIONS_HEIGHT),
          !.right_half = Rect(sx \div 2 + scr.x_shift, @.pos_y, sx \div 2,
                              sy - DECORATIONS_HEIGHT),
          !.maximized = Rect(scr.x_shift, @.pos_y, sx,
                             sy - DECORATIONS_HEIGHT)]

calculate_columns(scr, conf) ==
    LET sx0 == IF scr.x % 2 # 0 THEN scr.x - 1 ELSE scr.x
        sx == IF scr.main /\ ~conf.cover_dock
              THEN sx0 - (DockSize + Border)
              ELSE sx0 - Border
        sy == IF ~conf.cover_miniwindows
              THEN scr.y - (DockSize + Border)
              ELSE scr.y
    IN [scr EXCEPT
          !.x = sx,
          !.y = sy,
          !.left_half = Rect(scr.x_shift, @.pos_y, sx \div 2 - 1,
                             sy - DECORATIONS_HEIGHT),
          !.right_half = Rect(sx \div 2 + scr.x_shift, @.pos_y, sx \div 2,
                              sy - DECORATIONS_HEIGHT),
          !.maximized = Rect(scr.x_shift, @.pos_y, sx,
                             sy - DECORATIONS_HEIGHT)]

(***************************************************************************)
(* Screens.guess_dimensions                                                *)
(***************************************************************************)
RECURSIVE guess_from(_, _, _)
guess_from(screens, window, i) ==
    IF i > Len(screens) THEN "none"
    ELSE LET scr == screens[i] IN
         IF window = scr.left_half THEN "left"
         ELSE IF window = scr.right_half THEN "right"
         ELSE IF window.pos_x = 0 /\ window.pos_y = 0
                 /\ InRange(window.size_x, scr.x - Tolerance, scr.x + Tolerance)
                 /\ InRange(window.size_x, scr.x - Tolerance, scr.x + Tolerance)
              THEN "maximized"
         ELSE guess_from(screens, window, i + 1)

\* the maximized test in a loop of its own, ahead of the comparisons
guess_dimensions_maximized_first(screens, window) ==
    IF \E i \in 1..Len(screens) :
          /\ window.pos_x = 0
          /\ window.pos_y = 0
          /\ InRange(window.size_x, screens[i].x - Tolerance,
                     screens[i].x + Tolerance)
    THEN "maximized"
    ELSE guess_from(screens, window, 1)

\* the halves approximated the way the maximized window is
guess_dimensions_rough_halves(screens, window) ==
    LET near(rect) ==
            /\ window.pos_x = rect.pos_x
            /\ window.pos_y = rect.pos_y
            /\ InRange(window.size_x, rect.size_x - Tolerance, rect.size_x + Tolerance)
            /\ InRange(window.size_y, rect.size_y - Tolerance, rect.size_y + Tolerance)
    IN IF \E i \in 1..Len(screens) : near(screens[i].left_half) THEN "left"
       ELSE IF \E i \in 1..Len(screens) : near(screens[i].right_half) THEN "right"
       ELSE guess_from(screens, window, 1)

\* the maximized test taken relative to each screen's own x origin
guess_dimensions_any_origin(screens, window) ==
    IF \E i \in 1..Len(screens) :
          /\ window.pos_x = screens[i].x_shift
          /\ window.pos_y = 0
          /\ window # screens[i].left_half
          /\ InRange(window.size_x, screens[i].x - Tolerance,
                     screens[i].x + Tolerance)
    THEN "maximized"
    ELSE guess_from(screens, window, 1)

guess_dimensions(screens, window) == guess_from(screens, window, 1)

(***************************************************************************)
(* WMWindow._discover_screens and WMWindow._detect_dock_position           *)
(***************************************************************************)
\* the first screen made main whatever main_screen says
created_screens_first_is_main(monitors, main_screen) ==
    [i \in 1..Len(monitors) |->
        LET data == monitors[i]
            screen == Screen(data.x, data.y, data.sx, data.sy)
        IN [screen EXCEPT !.main = (i = 1)]]

\* the loop over monitors.items(): one Screen per monitor, in query order
created_screens(monitors, main_screen) ==
    [i \in 1..Len(monitors) |->
        LET data == monitors[i]
            screen == Screen(data.x, data.y, data.sx, data.sy)
        IN IF main_screen # "" /\ Len(monitors) > 1
           THEN [screen EXCEPT !.main = (main_screen = data.name)]
           ELSE [screen EXCEPT !.main = (i = 1)]]

\* screens[screen.x_shift] = screen: a later screen replaces an earlier one
\* with the same x_shift
by_shift(created, key) ==
    created[CHOOSE i \in 1..Len(created) :
               /\ created[i].x_shift = key
               /\ \A j \in (i + 1)..Len(created) : created[j].x_shift # key]

RECURSIVE sorted_keys(_)
sorted_keys(keys) ==
    IF keys = {} THEN <<>>
    ELSE LET least == CHOOSE k \in keys : \A other \in keys : k <= other
         IN <<least>> \o sorted_keys(keys \ {least})

\* without sorted(): the keys in the order the dictionary got them
sort_screens_insertion_order(created) ==
    LET firsts == {i \in 1..Len(created) :
                     \A j \in 1..(i - 1) : created[j].x_shift # created[i].x_shift}
        nth(n) == CHOOSE i \in firsts : Cardinality({j \in firsts : j < i}) = n - 1
    IN [n \in 1..Cardinality(firsts) |-> by_shift(created, created[nth(n)].x_shift)]

sort_screens(created) ==
    LET keys == sorted_keys({created[i].x_shift : i \in 1..Len(created)})
    IN [n \in 1..Len(keys) |-> by_shift(created, keys[n])]

\* len(set(result[key])) for the 64x64 windows of one shift_x
distinct_shifts(docks, key) ==
    Cardinality({docks[i].shift_y : i \in {j \in 1..Len(docks) : docks[j].shift_x = key}})

\* new_len >= length: a later key with as many rows takes over
RECURSIVE pick_winner_last_tie(_, _, _, _)
pick_winner_last_tie(docks, i, length, winner) ==
    IF i > Len(docks) THEN winner
    ELSE LET key == docks[i].shift_x
             first_seen == \A j \in 1..(i - 1) : docks[j].shift_x # key
             new_len == distinct_shifts(docks, key)
         IN IF first_seen /\ new_len >= length
            THEN pick_winner_last_tie(docks, i + 1, new_len, key)
            ELSE pick_winner_last_tie(docks, i + 1, length, winner)

\* the loop over the keys of result, in the order the keys were inserted
RECURSIVE pick_winner(_, _, _, _)
pick_winner(docks, i, length, winner) ==
    IF i > Len(docks) THEN winner
    ELSE LET key == docks[i].shift_x
             first_seen == \A j \in 1..(i - 1) : docks[j].shift_x # key
             new_len == distinct_shifts(docks, key)
         IN IF first_seen /\ new_len > length
            THEN pick_winner(docks, i + 1, new_len, key)
            ELSE pick_winner(docks, i + 1, length, winner)

detect_dock_position(screens, docks) ==
    LET winner == pick_winner(docks, 1, 0, 0)
    IN [i \in 1..Len(screens) |->
          [screens[i] EXCEPT
             !.main = InRange(winner, screens[i].x_shift,
                              screens[i].x + screens[i].x_shift + 1)]]

\* the screens before calculate_columns runs on them
\* (v \in {e} evaluates e once, where LET would evaluate it at every use)
arranged_screens(monitors, main_screen, docks) ==
    CHOOSE arranged \in
        {IF Len(sorted) > 1 /\ main_screen = ""
         THEN detect_dock_position(sorted, docks)
         ELSE sorted :
            sorted \in {sort_screens(created) :
                          created \in {created_screens(monitors, main_screen)}}} :
        TRUE

discover_screens(monitors, main_screen, docks, file) ==
    CHOOSE screens \in
        {[i \in 1..Len(arranged) |-> calculate_columns(arranged[i], Conf(file))] :
            arranged \in {arranged_screens(monitors, main_screen, docks)}} :
        TRUE

\* open(path) in Conf() raises when there is no file; Conf() is first called
\* by the first screen's calculate_columns
discover_raises(monitors, main_screen, docks, file) ==
    Len(arranged_screens(monitors, main_screen, docks)) > 0 /\ ~file.exists

(***************************************************************************)
(* WMWindow._get_props, get_data, move_to_screen, get_coords               *)
(***************************************************************************)
\* the first screen whose span holds pos_x; current_screen stays 0 otherwise
\* (indices are Python's: screens[k + 1] here is screens.screens[k] there)
\* without the loop over the screens: current_screen keeps its initial 0
locate_screen_initial(screens, pos_x, scr_no) == 0

RECURSIVE locate_screen(_, _, _)
locate_screen(screens, pos_x, scr_no) ==
    IF scr_no >= Len(screens) THEN 0
    ELSE LET scr == screens[scr_no + 1] IN
         IF InRange(pos_x, scr.x_shift, scr.x + scr.x_shift)
         THEN scr_no
         ELSE locate_screen(screens, pos_x, scr_no + 1)

\* query is what xdotool's output looks like, reported the geometry it holds
get_props(screens, reported, query) ==
    LET has_pos == query \in {"ok", "nogeom"}
        has_size == query \in {"ok", "nopos"}
        pos_x == IF has_pos THEN reported.pos_x - 1 ELSE None
        pos_y == IF has_pos THEN reported.pos_y - MAGIC_NO ELSE None
    IN [pos_x |-> pos_x,
        pos_y |-> pos_y,
        x |-> IF has_size THEN reported.size_x ELSE None,
        y |-> IF has_size THEN reported.size_y ELSE None,
        current_screen |-> IF has_pos THEN locate_screen(screens, pos_x, 0) ELSE 0]

get_data(props) == Rect(props.pos_x, props.pos_y, props.x, props.y)

\* without the idx < 0 test: screens[-1] is the last screen in Python
move_to_screen_wraps(screens, current_screen, screen_direction) ==
    LET idx == IF screen_direction = "right"
               THEN current_screen + 1
               ELSE current_screen - 1
    IN IF idx >= Len(screens)
       THEN [ok |-> FALSE, current_screen |-> current_screen]
       ELSE IF idx < 0
            THEN [ok |-> TRUE, current_screen |-> Len(screens) + idx]
       ELSE [ok |-> TRUE, current_screen |-> idx]

move_to_screen(screens, current_screen, screen_direction) ==
    LET idx == IF screen_direction = "right"
               THEN current_screen + 1
               ELSE current_screen - 1
    IN IF idx < 0 THEN [ok |-> FALSE, current_screen |-> current_screen]
       ELSE IF idx >= Len(screens)
            THEN [ok |-> FALSE, current_screen |-> current_screen]
       ELSE [ok |-> TRUE, current_screen |-> idx]

\* the shift applied to the two halves only
corrected_screens_halves_only(screens, current_screen, misbehaving) ==
    IF misbehaving
    THEN [screens EXCEPT
            ![current_screen + 1].left_half.pos_y = MisbehavingShift,
            ![current_screen + 1].right_half.pos_y = MisbehavingShift]
    ELSE screens

\* the rectangle taken from the first screen, not the current one
get_coords_first_screen(screens, current_screen, misbehaving, which) ==
    LET scr == screens[1]
    IN CASE which = "maximized" -> scr.maximized
         [] which = "left_half" -> scr.left_half
         [] which = "right_half" -> scr.right_half

\* the screens after get_coords: a misbehaving window shifts the three
\* rectangles of the current screen
corrected_screens(screens, current_screen, misbehaving) ==
    IF misbehaving
    THEN [screens EXCEPT
            ![current_screen + 1].left_half.pos_y = MisbehavingShift,
            ![current_screen + 1].right_half.pos_y = MisbehavingShift,
            ![current_screen + 1].maximized.pos_y = MisbehavingShift]
    ELSE screens

get_coords(screens, current_screen, misbehaving, which) ==
    LET scr == corrected_screens(screens, current_screen, misbehaving)[current_screen + 1]
    IN CASE which = "maximized" -> scr.maximized
         [] which = "left_half" -> scr.left_half
         [] which = "right_half" -> scr.right_half

(***************************************************************************)
(* cycle                                                                   *)
(***************************************************************************)
\* the table with the resize-first flags left out
movement_move_first(direction, current_state) ==
    IF direction = "left"
    THEN CASE current_state = "left" -> <<"right_half", "left", FALSE>>
           [] current_state = "maximized" -> <<"left_half", "none", FALSE>>
           [] current_state = "right" -> <<"maximized", "none", FALSE>>
           [] current_state = "none" -> <<"left_half", "none", FALSE>>
    ELSE CASE current_state = "left" -> <<"maximized", "none", FALSE>>
           [] current_state = "maximized" -> <<"right_half", "none", FALSE>>
           [] current_state = "right" -> <<"left_half", "right", FALSE>>
           [] current_state = "none" -> <<"right_half", "none", FALSE>>

\* the table as res_pos_win.py's left() and right() had it: no monitor move
movement_same_monitor(direction, current_state) ==
    IF direction = "left"
    THEN CASE current_state = "left" -> <<"right_half", "none", FALSE>>
           [] current_state = "maximized" -> <<"left_half", "none", FALSE>>
           [] current_state = "right" -> <<"maximized", "none", TRUE>>
           [] current_state = "none" -> <<"left_half", "none", FALSE>>
    ELSE CASE current_state = "left" -> <<"maximized", "none", FALSE>>
           [] current_state = "maximized" -> <<"right_half", "none", TRUE>>
           [] current_state = "right" -> <<"left_half", "none", FALSE>>
           [] current_state = "none" -> <<"right_half", "none", FALSE>>

movement(direction, current_state) ==
    IF direction = "left"
    THEN CASE current_state = "left" -> <<"right_half", "left", FALSE>>
           [] current_state = "maximized" -> <<"left_half", "none", FALSE>>
           [] current_state = "right" -> <<"maximized", "none", TRUE>>
           [] current_state = "none" -> <<"left_half", "none", FALSE>>
    ELSE CASE current_state = "left" -> <<"maximized", "none", FALSE>>
           [] current_state = "maximized" -> <<"right_half", "none", TRUE>>
           [] current_state = "right" -> <<"left_half", "right", FALSE>>
           [] current_state = "none" -> <<"right_half", "none", FALSE>>

\* the else branch of cycle alone
command_move_first(coords, order) ==
    <<[op |-> "windowmove", a |-> coords.pos_x, b |-> coords.pos_y],
      [op |-> "windowsize", a |-> coords.size_x, b |-> coords.size_y],
      [op |-> "mousemove",
       a |-> 2 * coords.pos_x + coords.size_x,
       b |-> 2 * coords.pos_y + coords.size_y]>>

\* the xdotool command line after getactivewindow; the mouse target is in
\* half pixels (2 * (pos + size / 2))
command(coords, order) ==
    LET size == [op |-> "windowsize", a |-> coords.size_x, b |-> coords.size_y]
        move == [op |-> "windowmove", a |-> coords.pos_x, b |-> coords.pos_y]
        mouse == [op |-> "mousemove",
                  a |-> 2 * coords.pos_x + coords.size_x,
                  b |-> 2 * coords.pos_y + coords.size_y]
    IN IF order THEN <<size, move, mouse>> ELSE <<move, size, mouse>>

\* what xdotool reports after the command ran: windowmove(x, y) shows up as
\* Position x + 1, y + MAGIC_NO, the offsets _get_props takes off again
RECURSIVE window_after(_, _)
window_after(reported, cmd) ==
    IF cmd = <<>> THEN reported
    ELSE LET c == Head(cmd)
             next == CASE c.op = "windowsize" ->
                            [reported EXCEPT !.size_x = c.a, !.size_y = c.b]
                       [] c.op = "windowmove" ->
                            [reported EXCEPT !.pos_x = c.a + 1,
                                             !.pos_y = c.b + MAGIC_NO]
                       [] OTHER -> reported
         IN window_after(next, Tail(cmd))

(***************************************************************************)
(* State                                                                   *)
(***************************************************************************)
VARIABLES
    monitors,        \* get_monitors(): the connected monitors, in xrandr's order
    main_screen,     \* args.monitor_name ("" when not given)
    docks,           \* the 64x64 windows of xwininfo -tree, in its order
    conf_file,       \* ~/GNUstep/Defaults/WindowMaker
    misbehaving,     \* the window name contains one of misbehaving_windows
    held,            \* the direction the user keeps asking for, or "any"
    reported,        \* the active window as xdotool getwindowgeometry reports it
    pc,              \* how the last invocation ended
    direction,       \* its direction
    query,           \* the shape of the xdotool output it read
    screens,         \* its wmwin.screens.screens when it ended
    window,          \* its wmwin.get_data()
    current_state,   \* its wmwin.guess_dimensions()
    selected,        \* its movement[current_state]
    located,         \* its wmwin.current_screen after _get_props
    current_screen,  \* its wmwin.current_screen when it ended
    cmd,             \* the command it ran (empty when it ran none)
    invocations,     \* the invocations running side by side, when some are
    issued           \* these in the order of their subprocess.run(cmd)

env == <<monitors, main_screen, docks, conf_file, misbehaving, held>>
run == <<pc, direction, query, screens, window, current_state, selected,
         located, current_screen, cmd>>
race == <<invocations, issued>>
vars == <<env, reported, run, race>>

(***************************************************************************)
(* Inputs                                                                  *)
(***************************************************************************)
RECURSIVE SumTo(_, _, _)
SumTo(ws, from, to) == IF from > to THEN 0 ELSE ws[from] + SumTo(ws, from + 1, to)

Monitor(ws, arrangement, i) ==
    [name |-> MonitorNames[i],
     x |-> ws[i],
     y |-> ScreenHeight,
     sx |-> CASE arrangement = "row" -> SumTo(ws, 1, i - 1)
              [] arrangement = "reversed" -> SumTo(ws, i + 1, Len(ws))
              [] arrangement = "mirrored" -> 0,
     sy |-> 0]

MonitorSets ==
    UNION {{[i \in 1..n |-> Monitor(ws, a, i)] :
              ws \in [1..n -> Widths], a \in Arrangements} : n \in 0..MaxMon}

DockLists ==
    UNION {[1..n -> [shift_x : DockShifts, shift_y : {0}]] : n \in 0..MaxDock}

ConfFiles ==
    {[exists |-> FALSE, icons_yes |-> FALSE, dock_no |-> FALSE]}
    \cup [exists : {TRUE}, icons_yes : BOOLEAN, dock_no : BOOLEAN]

\* a floating window, a window the window manager maximized, a floating
\* window further right
InitialWindows ==
    {Rect(301, 143, 800, 600), Rect(1, MAGIC_NO, 1920, 1051),
     Rect(2501, 343, 800, 600)}

\* monitors side by side: no two overlap
IsRow(mons) ==
    \A i, j \in 1..Len(mons) :
        i # j => \/ mons[i].sx + mons[i].x <= mons[j].sx
                 \/ mons[j].sx + mons[j].x <= mons[i].sx

NotRun ==
    /\ pc = "idle"
    /\ direction = "none"
    /\ query = "none"
    /\ screens = <<>>
    /\ window = Rect(None, None, None, None)
    /\ current_state = "none"
    /\ selected = <<"none", "none", FALSE>>
    /\ located = 0
    /\ current_screen = 0
    /\ cmd = <<>>
    /\ invocations = <<>>
    /\ issued = <<>>

Init ==
    /\ monitors \in MonitorSets
    /\ main_screen \in MainArgs
    /\ docks \in DockLists
    /\ conf_file \in ConfFiles
    /\ misbehaving \in BOOLEAN
    /\ held = "any"
    /\ reported \in InitialWindows
    /\ NotRun

(***************************************************************************)
(* One invocation of cycle                                                 *)
(***************************************************************************)
Raise ==
    /\ pc' = "crash"
    /\ screens' = <<>>
    /\ window' = Rect(None, None, None, None)
    /\ current_state' = "none"
    /\ selected' = <<"none", "none", FALSE>>
    /\ located' = 0
    /\ current_screen' = 0
    /\ cmd' = <<>>
    /\ UNCHANGED reported

Cycle(d, q) ==
    /\ held \in {"any", d}
    /\ UNCHANGED race
    /\ direction' = d
    /\ query' = q
    /\ UNCHANGED env
    /\ IF discover_raises(monitors, main_screen, docks, conf_file)
       THEN Raise
       ELSE
         \* wmwin = WMWindow(monitors, args.monitor_name)
         \E scrs \in {discover_screens(monitors, main_screen, docks, conf_file)} :
         \E props \in {get_props(scrs, reported, q)} :
         \* current_state = wmwin.guess_dimensions()
         \E state \in {guess_dimensions(scrs, get_data(props))} :
         \* key, direction, order = movement[current_state]
         \E sel \in {movement(d, state)} :
         \E moved \in {IF sel[2] # "none"
                       THEN move_to_screen(scrs, props.current_screen, sel[2])
                       ELSE [ok |-> TRUE, current_screen |-> props.current_screen]} :
            IF ~moved.ok
            THEN \* return: move_to_screen said no
                 /\ pc' = "noop"
                 /\ screens' = scrs
                 /\ window' = get_data(props)
                 /\ current_state' = state
                 /\ selected' = sel
                 /\ located' = props.current_screen
                 /\ current_screen' = moved.current_screen
                 /\ cmd' = <<>>
                 /\ UNCHANGED reported
            ELSE IF moved.current_screen >= Len(scrs)
            THEN \* IndexError in get_coords
                 Raise
            ELSE \E line \in {command(get_coords(scrs, moved.current_screen,
                                                 misbehaving, sel[1]), sel[3])} :
                    /\ pc' = "done"
                    /\ screens' = corrected_screens(scrs, moved.current_screen,
                                                    misbehaving)
                    /\ window' = get_data(props)
                    /\ current_state' = state
                    /\ selected' = sel
                    /\ located' = props.current_screen
                    /\ current_screen' = moved.current_screen
                    /\ cmd' = line
                    /\ reported' = window_after(reported, line)

Next == \E d \in Directions, q \in Queries : Cycle(d, q)

Spec == Init /\ [][Next]_vars

(***************************************************************************)
(* The user keeps pushing the window one way: monitors side by side, a     *)
(* readable configuration, a window name not among misbehaving_windows,    *)
(* and every invocation reads the window where the last command put it.    *)
(***************************************************************************)
InitFixed ==
    /\ monitors \in {m \in MonitorSets : Len(m) >= 1 /\ IsRow(m)}
    /\ main_screen \in MainArgs
    /\ docks \in DockLists
    /\ conf_file \in {f \in ConfFiles : f.exists}
    /\ misbehaving = FALSE
    /\ held \in Directions
    /\ reported \in InitialWindows
    /\ NotRun

NextFixed == \E d \in Directions : Cycle(d, "ok")

SpecFixed == InitFixed /\ [][NextFixed]_vars /\ WF_vars(NextFixed)

(***************************************************************************)
(* Classification of windows placed by hand: at the rectangles of the      *)
(* layouts and around the widths guess_dimensions takes for maximized.     *)
(***************************************************************************)
ToleranceEdges == {0 - 33, 0 - 32, 31, 32}

\* how xdotool reports a window whose corrected geometry is rect
ReportedAt(rect) ==
    Rect(rect.pos_x + 1, rect.pos_y + MAGIC_NO, rect.size_x, rect.size_y)

PlacedWindows(scrs) ==
    UNION {{ReportedAt(scrs[i].left_half), ReportedAt(scrs[i].right_half),
            ReportedAt(scrs[i].maximized)}
           \cup {ReportedAt(Rect(0, 0, scrs[i].x + e, h)) :
                    e \in ToleranceEdges, h \in {scrs[i].maximized.size_y, 600}} :
           i \in 1..Len(scrs)}

InitClassify ==
    /\ monitors \in MonitorSets
    /\ main_screen \in MainArgs
    /\ docks \in DockLists
    /\ conf_file \in {f \in ConfFiles : f.exists}
    /\ misbehaving = FALSE
    /\ held = "any"
    /\ reported \in PlacedWindows(discover_screens(monitors, main_screen,
                                                   docks, conf_file))
    /\ NotRun

SpecClassify == InitClassify /\ [][Next]_vars

\* the same windows, every window query answered in full
SpecPlaced == InitClassify /\ [][NextFixed]_vars

(***************************************************************************)
(* A desk of full-HD monitors: one, two side by side (in either query      *)
(* order), two with the left one lower than the right; the dock on the     *)
(* edge the two share or on the right edge; a main monitor named, not      *)
(* named, or named wrongly; the window at a rectangle of a layout or       *)
(* roughly over the left half of the left monitor.                         *)
(***************************************************************************)
DeskMonitor(i, x, y, sx, sy) ==
    [name |-> MonitorNames[i], x |-> x, y |-> y, sx |-> sx, sy |-> sy]

DeskMonitors ==
    {<<DeskMonitor(1, 1920, 1080, 0, 0)>>,
     <<DeskMonitor(1, 1920, 1080, 0, 0), DeskMonitor(2, 1920, 1080, 1920, 0)>>,
     <<DeskMonitor(2, 1920, 1080, 1920, 0), DeskMonitor(1, 1920, 1080, 0, 0)>>,
     <<DeskMonitor(1, 1920, 1080, 0, 120), DeskMonitor(2, 1921, 1080, 1920, 0)>>}

DeskMainArgs == {"", "DP-2", "HDMI-1"}

DeskDockShifts == {1920, 3776}

DeskDockLists ==
    UNION {[1..n -> [shift_x : DeskDockShifts, shift_y : {0}]] : n \in 0..MaxDock}

RoughLeftHalf == Rect(0, 0, 960, 1022)

DeskWindows(scrs) ==
    {ReportedAt(RoughLeftHalf)}
    \cup UNION {{ReportedAt(scrs[i].left_half), ReportedAt(scrs[i].right_half),
                 ReportedAt(scrs[i].maximized)} : i \in 1..Len(scrs)}

InitDesk ==
    /\ monitors \in DeskMonitors
    /\ main_screen \in DeskMainArgs
    /\ docks \in DeskDockLists
    /\ conf_file \in {f \in ConfFiles : f.exists}
    /\ misbehaving \in BOOLEAN
    /\ held = "any"
    /\ reported \in DeskWindows(discover_screens(monitors, main_screen,
                                                 docks, conf_file))
    /\ NotRun

SpecDesk == InitDesk /\ [][Next]_vars

(***************************************************************************)
(* move_mouse: `moveto mousemove -m NAME`, and main's choice between it    *)
(* and cycle                                                               *)
(***************************************************************************)
\* monitors.get(name): the index of the monitor, 0 for None
monitor_get(mons, name) ==
    IF \E i \in 1..Len(mons) : mons[i].name = name
    THEN CHOOSE i \in 1..Len(mons) : mons[i].name = name
    ELSE 0

\* the pointer target in half pixels, as in command
MoveMouse ==
    /\ main_screen # ""
    /\ direction' = "none"
    /\ query' = "none"
    /\ screens' = <<>>
    /\ window' = Rect(None, None, None, None)
    /\ current_state' = "none"
    /\ selected' = <<"none", "none", FALSE>>
    /\ located' = 0
    /\ current_screen' = 0
    /\ UNCHANGED <<env, reported, race>>
    /\ \E mon \in {monitor_get(monitors, main_screen)} :
          IF mon = 0
          THEN \* mon['sx'] on None: TypeError
               /\ pc' = "crash"
               /\ cmd' = <<>>
          ELSE /\ pc' = "mouse"
               /\ cmd' = <<[op |-> "mousemove",
                            a |-> 2 * (monitors[mon].sx + 15),
                            b |-> 2 * (monitors[mon].sy + 50)]>>

NextMain ==
    \/ \E d \in Directions, q \in Queries : Cycle(d, q)
    \/ MoveMouse

SpecMain == InitDesk /\ [][NextMain]_vars

(***************************************************************************)
(* Invocations of cycle side by side on the same window.  Each is its own  *)
(* process: it reads the window once (xdotool getwindowgeometry), computes *)
(* its command and runs it; the xdotool it starts sends windowmove,        *)
(* windowsize and mousemove to the X server one after the other, and the   *)
(* server takes the requests of different clients in any order.            *)
(***************************************************************************)
MaxInvocations == 2

Waiting == [stage |-> "waiting", target |-> Rect(None, None, None, None),
            line |-> <<>>]

\* wmwin = WMWindow(...) up to coords = wmwin.get_coords(key) and cmd = [...]
Prepare(p, d) ==
    /\ invocations[p].stage = "waiting"
    /\ UNCHANGED <<env, reported, run, issued>>
    /\ IF discover_raises(monitors, main_screen, docks, conf_file)
       THEN invocations' = [invocations EXCEPT ![p].stage = "crash"]
       ELSE
         \E scrs \in {discover_screens(monitors, main_screen, docks, conf_file)} :
         \E props \in {get_props(scrs, reported, "ok")} :
         \E state \in {guess_dimensions(scrs, get_data(props))} :
         \E sel \in {movement(d, state)} :
         \E moved \in {IF sel[2] # "none"
                       THEN move_to_screen(scrs, props.current_screen, sel[2])
                       ELSE [ok |-> TRUE, current_screen |-> props.current_screen]} :
            IF ~moved.ok
            THEN invocations' = [invocations EXCEPT ![p].stage = "noop"]
            ELSE IF moved.current_screen >= Len(scrs)
            THEN invocations' = [invocations EXCEPT ![p].stage = "crash"]
            ELSE \E coords \in {get_coords(scrs, moved.current_screen,
                                            misbehaving, sel[1])} :
                    invocations' = [invocations EXCEPT
                                      ![p] = [stage |-> "ready",
                                              target |-> coords,
                                              line |-> command(coords, sel[3])]]

\* subprocess.run(cmd)
Issue(p) ==
    /\ invocations[p].stage = "ready"
    /\ invocations' = [invocations EXCEPT ![p].stage = "running"]
    /\ issued' = Append(issued, p)
    /\ UNCHANGED <<env, reported, run>>

\* xdotool carries out the next of its chained commands
Primitive(p) ==
    /\ invocations[p].stage = "running"
    /\ reported' = window_after(reported, <<Head(invocations[p].line)>>)
    /\ invocations' = [invocations EXCEPT
                         ![p].line = Tail(@),
                         ![p].stage = IF Len(invocations[p].line) = 1
                                      THEN "done"
                                      ELSE "running"]
    /\ UNCHANGED <<env, run, issued>>

InitRace ==
    /\ monitors \in {m \in DeskMonitors : Len(m) = 2}
    /\ main_screen = "DP-2"
    /\ docks = <<>>
    /\ conf_file \in {f \in ConfFiles : f.exists /\ ~f.icons_yes /\ ~f.dock_no}
    /\ misbehaving = FALSE
    /\ held = "any"
    /\ reported \in DeskWindows(discover_screens(monitors, main_screen,
                                                 docks, conf_file))
    /\ pc = "idle"
    /\ direction = "none"
    /\ query = "none"
    /\ screens = <<>>
    /\ window = Rect(None, None, None, None)
    /\ current_state = "none"
    /\ selected = <<"none", "none", FALSE>>
    /\ located = 0
    /\ current_screen = 0
    /\ cmd = <<>>
    /\ invocations = [p \in 1..MaxInvocations |-> Waiting]
    /\ issued = <<>>

NextRace ==
    \E p \in 1..MaxInvocations :
        \/ \E d \in Directions : Prepare(p, d)
        \/ Issue(p)
        \/ Primitive(p)

SpecRace == InitRace /\ [][NextRace]_vars

(***************************************************************************)
(* A floating window dragged along the desk: its left edge on the first    *)
(* and the last pixel of each monitor and of each monitor's usable width.  *)
(***************************************************************************)
EdgeWindows(mons, scrs) ==
    {ReportedAt(Rect(px, 100, 800, 600)) :
        px \in UNION {{mons[i].sx, mons[i].sx + mons[i].x - 1} : i \in 1..Len(mons)}
               \cup UNION {{scrs[i].x_shift + scrs[i].x - 1,
                            scrs[i].x_shift + scrs[i].x} : i \in 1..Len(scrs)}}

InitLocate ==
    /\ monitors \in DeskMonitors
    /\ main_screen \in DeskMainArgs
    /\ docks \in DeskDockLists
    /\ conf_file \in {f \in ConfFiles : f.exists}
    /\ misbehaving = FALSE
    /\ held = "any"
    /\ reported \in EdgeWindows(monitors,
                                 discover_screens(monitors, main_screen,
                                                  docks, conf_file))
    /\ NotRun

SpecLocate == InitLocate /\ [][Next]_vars

(***************************************************************************)
(* Columns of 64x64 windows on two monitors: one column 100 pixels into    *)
(* the left monitor, one on the right edge of the right monitor, their     *)
(* windows in one of two rows and listed in any order.                     *)
(***************************************************************************)
MaxCandidates == 4

CandidateShifts == {100, 3776}

CandidateRows == {0, 64}

CandidateLists ==
    UNION {[1..n -> [shift_x : CandidateShifts, shift_y : CandidateRows]] :
             n \in 0..MaxCandidates}

InitDock ==
    /\ monitors = <<DeskMonitor(1, 1920, 1080, 0, 0),
                    DeskMonitor(2, 1920, 1080, 1920, 0)>>
    /\ main_screen = ""
    /\ docks \in CandidateLists
    /\ conf_file \in {f \in ConfFiles : f.exists /\ ~f.icons_yes /\ ~f.dock_no}
    /\ misbehaving = FALSE
    /\ held = "any"
    /\ reported = ReportedAt(RoughLeftHalf)
    /\ NotRun

SpecDock == InitDock /\ [][NextFixed]_vars

(***************************************************************************)
(* Properties                                                              *)
(***************************************************************************)
\* the layouts an invocation computes from the monitors as they are
Layouts == discover_screens(monitors, main_screen, docks, conf_file)

\* the window an invocation reads when the query succeeds
ReadBack ==
    Rect(reported.pos_x - 1, reported.pos_y - MAGIC_NO,
         reported.size_x, reported.size_y)

Ran == pc \in {"done", "noop"}

\* the rectangle get_coords returned to the last invocation
Target ==
    LET scr == screens[current_screen + 1]
    IN CASE selected[1] = "left_half" -> scr.left_half
         [] selected[1] = "right_half" -> scr.right_half
         [] selected[1] = "maximized" -> scr.maximized

\* C1: for each of the eight (direction, state) pairs cycle selects exactly
\* the tabulated (target, monitor move, resize first) triple.
C1_TransitionTable ==
    Ran =>
      /\ (direction = "left" /\ current_state = "left")
            => selected = <<"right_half", "left", FALSE>>
      /\ (direction = "left" /\ current_state = "maximized")
            => selected = <<"left_half", "none", FALSE>>
      /\ (direction = "left" /\ current_state = "right")
            => selected = <<"maximized", "none", TRUE>>
      /\ (direction = "left" /\ current_state = "none")
            => selected = <<"left_half", "none", FALSE>>
      /\ (direction = "right" /\ current_state = "left")
            => selected = <<"maximized", "none", FALSE>>
      /\ (direction = "right" /\ current_state = "maximized")
            => selected = <<"right_half", "none", TRUE>>
      /\ (direction = "right" /\ current_state = "right")
            => selected = <<"left_half", "right", FALSE>>
      /\ (direction = "right" /\ current_state = "none")
            => selected = <<"right_half", "none", FALSE>>

C1_Witness ==
    /\ pc = "done"
    /\ direction = "left"
    /\ current_state = "right"
    /\ selected = <<"maximized", "none", TRUE>>

\* C2: a monitor move asked for at index 0 (to the previous monitor) or at
\* the last index (to the next) makes the cycle a no-op: move_to_screen
\* returns False, current_screen stays and no command is emitted.
C2_BoundaryNoOp ==
    (\/ selected[2] = "left" /\ located = 0
     \/ selected[2] = "right" /\ located = Len(screens) - 1)
    => /\ pc = "noop"
       /\ current_screen = located
       /\ cmd = <<>>

C2_Witness ==
    /\ pc = "noop"
    /\ Len(screens) >= 2
    /\ selected[2] = "left"
    /\ located = 0
    /\ window = screens[1].left_half

\* C3: with the window read back where the last command put it, cycling in
\* one direction ends with the window in the outer half of the outermost
\* monitor of that direction, and every further cycle emits no command.
OuterHalf ==
    IF held = "right"
    THEN Layouts[Len(Layouts)].right_half
    ELSE Layouts[1].left_half

AtOuterHalf == ReadBack = OuterHalf

C3_PushedToTheEdge ==
    /\ <>[]AtOuterHalf
    /\ [][AtOuterHalf => (cmd' = <<>> /\ reported' = reported)]_vars

C3_Witness ==
    /\ AtOuterHalf
    /\ pc = "noop"
    /\ Len(screens) >= 2
    /\ held = "right"

\* C4: on monitors side by side, a window read back at the right half of
\* monitor k (not the last) is sent by cycle right to the left half of
\* monitor k + 1, and one at the left half of monitor k > 0 by cycle left to
\* the right half of monitor k - 1.
SentTo(rect) ==
    /\ pc' = "done"
    /\ cmd' = command(rect, FALSE)
    /\ reported' = ReportedAt(rect)

C4_Step ==
    (IsRow(monitors) /\ conf_file.exists /\ query' = "ok")
    => \A layouts \in {Layouts} :
       \A k \in 0..(Len(layouts) - 1) :
         /\ (direction' = "right" /\ k < Len(layouts) - 1
             /\ ReadBack = layouts[k + 1].right_half)
            => /\ located' = k
               /\ current_screen' = k + 1
               /\ SentTo(screens'[k + 2].left_half)
         /\ (direction' = "left" /\ k > 0
             /\ ReadBack = layouts[k + 1].left_half)
            => /\ located' = k
               /\ current_screen' = k - 1
               /\ SentTo(screens'[k].right_half)

C4_AdjacentMonitor == [][C4_Step]_vars

C4_Witness ==
    /\ pc = "done"
    /\ direction = "left"
    /\ located = 1
    /\ current_screen = 0
    /\ window = screens[2].left_half
    /\ cmd = command(screens[1].right_half, FALSE)

\* C5 as stated: the two halves add up to the usable width.
C5_HalvesSpanUsableWidth ==
    \A i \in 1..Len(screens) :
        screens[i].left_half.size_x + screens[i].right_half.size_x = screens[i].x

\* C5 as amended: the two halves add up to the usable width less one pixel.
C5_HalvesLeaveOnePixel ==
    \A i \in 1..Len(screens) :
        screens[i].left_half.size_x + screens[i].right_half.size_x
            = screens[i].x - 1

C5_Witness ==
    /\ Len(screens) = 2
    /\ screens[1].main
    /\ ~screens[2].main
    /\ screens[1].x = 1920 - (DockSize + Border)
    /\ screens[2].x = 3840 - Border

\* C6: a window at a layout's own left half is classified left and one at its
\* own right half is classified right.
C6_RoundTrip ==
    (Ran /\ query = "ok")
    => \A i \in 1..Len(Layouts) :
         /\ window = Layouts[i].left_half => current_state = "left"
         /\ window = Layouts[i].right_half => current_state = "right"

C6_Witness ==
    /\ Ran
    /\ query = "ok"
    /\ window = Layouts[1].left_half
    /\ window.pos_x = 0
    /\ \E i \in 1..Len(Layouts) :
          InRange(window.size_x, Layouts[i].x - Tolerance, Layouts[i].x + Tolerance)
    /\ current_state = "left"

\* C7: a window at (0, 0) whose width is within 32 pixels of a layout's
\* usable width, either way, is classified maximized.
C7_MaximizedWithinTolerance ==
    (Ran /\ query = "ok")
    => \A i \in 1..Len(Layouts) :
         (/\ window.pos_x = 0
          /\ window.pos_y = 0
          /\ Layouts[i].x - 32 <= window.size_x
          /\ window.size_x <= Layouts[i].x + 32)
         => current_state = "maximized"

\* C8: when the window query does not give position and size, the cycle is
\* aborted and no command is emitted.
C8_QueryFailureAborts ==
    query \in {"short", "nopos", "nogeom"} => cmd = <<>>

\* C9: with no monitors, a cycle ends as no action taken: no command and no
\* crash.
C9_NoMonitorsNoAction ==
    (pc # "idle" /\ monitors = <<>>) => (pc = "noop" /\ cmd = <<>>)

\* C10: a command is one move, one resize and one mouse warp for the same
\* target rectangle, the resize ahead of the move exactly when the
\* resize-first flag is set, the warp last and to the rectangle's centre.
C10_CommandShape ==
    cmd # <<>> =>
      LET resize == [op |-> "windowsize", a |-> Target.size_x, b |-> Target.size_y]
          move == [op |-> "windowmove", a |-> Target.pos_x, b |-> Target.pos_y]
      IN /\ pc = "done"
         /\ Len(cmd) = 3
         /\ IF selected[3]
            THEN cmd[1] = resize /\ cmd[2] = move
            ELSE cmd[1] = move /\ cmd[2] = resize
         /\ cmd[3].op = "mousemove"
         /\ cmd[3].a = 2 * Target.pos_x + Target.size_x
         /\ cmd[3].b = 2 * Target.pos_y + Target.size_y

C10_Witness ==
    /\ pc = "done"
    /\ selected[3]
    /\ cmd[1].op = "windowsize"
    /\ cmd[2].op = "windowmove"
    /\ cmd[3].op = "mousemove"
    /\ cmd[3].a % 2 = 1

\* the windowmove of the last command
EmittedMove == cmd[IF selected[3] THEN 2 ELSE 1]

\* C11: in a cycle that emits a command for a window whose title is among
\* misbehaving_windows, the three rectangles of the destination layout (the
\* one at the index after any monitor move) have pos_y = 21 and the move is
\* emitted with y = 21; for any other title the move is emitted with y = 0
\* and the layouts are as calculate_columns left them.
C11_MisbehavingShift ==
    pc = "done" =>
      LET dest == screens[current_screen + 1] IN
      /\ EmittedMove.op = "windowmove"
      /\ IF misbehaving
         THEN /\ dest.left_half.pos_y = 21
              /\ dest.right_half.pos_y = 21
              /\ dest.maximized.pos_y = 21
              /\ EmittedMove.b = 21
         ELSE /\ EmittedMove.b = 0
              /\ screens = Layouts

C11_Witness ==
    /\ pc = "done"
    /\ misbehaving
    /\ selected = <<"left_half", "right", FALSE>>
    /\ current_screen = located + 1
    /\ EmittedMove.b = 21
    /\ screens[current_screen + 1].maximized.pos_y = 21
    /\ screens[located + 1].maximized.pos_y = 0

\* C12: after the screens are discovered, at most one of them is main.
C12_AtMostOneMain ==
    Ran => Cardinality({i \in 1..Len(screens) : screens[i].main}) <= 1

\* C13: there is one layout per monitor of the monitor query, also for
\* monitors that share their x origin.
C13_OneLayoutPerMonitor ==
    Ran => Len(screens) = Len(monitors)

\* C14: the layouts are in ascending order of x_shift whatever the order of
\* the monitor query, each next one lying to the right of the one before,
\* and their origins are the monitors' origins.
C14_SortedByOrigin ==
    Ran =>
      /\ \A i \in 1..(Len(screens) - 1) : screens[i].x_shift < screens[i + 1].x_shift
      /\ {screens[i].x_shift : i \in 1..Len(screens)}
            = {monitors[i].sx : i \in 1..Len(monitors)}

C14_Witness ==
    /\ Ran
    /\ Len(monitors) = 2
    /\ monitors[1].sx > monitors[2].sx
    /\ Len(screens) = 2
    /\ screens[1].x_shift = monitors[2].sx
    /\ screens[2].x_shift = monitors[1].sx

\* two 1920x1080 monitors, the left one at (0, 0) and not main, the right one
\* at (1920, 0) and main, the dock not to be covered, the miniwindows to be
\* covered, decorations 29 high; cycle left read the window at (0, 0),
\* 960x1022
Scenario1 ==
    /\ Ran
    /\ monitors = <<DeskMonitor(1, 1920, 1080, 0, 0), DeskMonitor(2, 1920, 1080, 1920, 0)>>
    /\ Len(screens) = 2
    /\ ~screens[1].main
    /\ screens[2].main
    /\ ~conf_file.dock_no
    /\ ~conf_file.icons_yes
    /\ DECORATIONS_HEIGHT = 29
    /\ query = "ok"
    /\ window = RoughLeftHalf
    /\ direction = "left"

\* C15 as stated: in scenario 1 the window is classified left and cycle left
\* targets the right half of the left monitor, with no monitor move.
C15_Scenario1 ==
    Scenario1 =>
      /\ current_state = "left"
      /\ pc = "done"
      /\ selected[2] = "none"
      /\ current_screen = 0
      /\ Target = screens[1].right_half

\* C15 as amended: in scenario 1 the window is classified as none of the
\* placements and cycle left targets the left half of the left monitor,
\* (0, 0) 958x1051 but for the shift of a misbehaving window, with no
\* monitor move.
C15_Scenario1Unclassified ==
    Scenario1 =>
      /\ current_state = "none"
      /\ pc = "done"
      /\ selected = <<"left_half", "none", FALSE>>
      /\ located = 0
      /\ current_screen = 0
      /\ Target = screens[1].left_half
      /\ Target = Rect(0, IF misbehaving THEN MisbehavingShift ELSE 0, 958, 1051)
      /\ cmd = command(Target, FALSE)

C15_Witness ==
    /\ Scenario1
    /\ pc = "done"
    /\ main_screen = "DP-2"
    /\ ~misbehaving
    /\ cmd[1] = [op |-> "windowmove", a |-> 0, b |-> 0]
    /\ cmd[2] = [op |-> "windowsize", a |-> 958, b |-> 1051]

\* the last invocation was mousemove
MouseRan == pc # "idle" /\ direction = "none"

\* C16: mousemove for a monitor that is not among the connected ones ends
\* without a crash and without a mouse command.
C16_NoSuchMonitorNoCrash ==
    (MouseRan /\ monitor_get(monitors, main_screen) = 0)
    => (pc # "crash" /\ cmd = <<>>)

\* the screens as discovered with the defaults of Conf
DefaultLayouts ==
    LET arranged == arranged_screens(monitors, main_screen, docks)
    IN [i \in 1..Len(arranged) |->
          calculate_columns(arranged[i],
                            [cover_miniwindows |-> TRUE, cover_dock |-> FALSE])]

\* C17: with the configuration file missing, or present without the two
\* keys, the invocation does not fail on reading it and the layouts are
\* computed with cover_dock false and cover_miniwindows true.
C17_ConfigNeverFails ==
    (pc # "idle" /\ monitors # <<>> /\ ~conf_file.icons_yes /\ ~conf_file.dock_no)
    => /\ pc # "crash"
       /\ Len(screens) = Len(DefaultLayouts)
       /\ \A i \in 1..Len(screens) :
             /\ screens[i].x = DefaultLayouts[i].x
             /\ screens[i].y = DefaultLayouts[i].y

\* every invocation has ended and at least one ran a command
RaceOver ==
    /\ issued # <<>>
    /\ \A p \in 1..Len(invocations) :
          invocations[p].stage \in {"done", "noop", "crash"}

\* C18: when invocations ran side by side, the window ends at the target
\* rectangle, position and size, of the one whose command was issued last.
C18_LastCommandWins ==
    RaceOver => reported = ReportedAt(invocations[issued[Len(issued)]].target)

\* C19: the usable width is the width, less one when odd, less 66 for a main
\* screen whose dock may not be covered and less 2 otherwise; the usable
\* height is the height, less 66 when the miniwindows may not be covered.
C19_MarginRule ==
    Ran =>
      \E arranged \in {arranged_screens(monitors, main_screen, docks)} :
        /\ Len(screens) = Len(arranged)
        /\ \A i \in 1..Len(screens) :
              LET width == arranged[i].x
                  even == IF width % 2 = 0 THEN width ELSE width - 1
                  dock_overlap == conf_file.dock_no
                  mini_overlap == ~conf_file.icons_yes
              IN /\ screens[i].x = even - (IF arranged[i].main /\ ~dock_overlap
                                           THEN 66 ELSE 2)
                 /\ screens[i].y = arranged[i].y - (IF ~mini_overlap THEN 66 ELSE 0)

C19_Witness ==
    /\ Ran
    /\ Len(screens) = 2
    /\ screens[1].main
    /\ ~screens[2].main
    /\ ~conf_file.dock_no
    /\ conf_file.icons_yes
    /\ monitors[1].x = 1921
    /\ screens[1].x = 1854
    /\ screens[2].x = 3838
    /\ screens[1].y = ScreenHeight - 66

\* C20: before the shift of a misbehaving window, every layout has
\* left_half = (x_shift, 0, x / 2 - 1, y - d), right_half = (x / 2 + x_shift,
\* 0, x / 2, y - d) and maximized = (x_shift, 0, x, y - d) for its usable
\* width x, usable height y and the decorations' height d, whatever the
\* monitor's y origin.
C20_LayoutRectangles ==
    (Ran /\ ~misbehaving) =>
      \A i \in 1..Len(screens) :
        LET scr == screens[i]
            d == DECORATIONS_HEIGHT
        IN /\ scr.x % 2 = 0
           /\ scr.left_half = Rect(scr.x_shift, 0, scr.x \div 2 - 1, scr.y - d)
           /\ scr.right_half = Rect(scr.x \div 2 + scr.x_shift, 0, scr.x \div 2,
                                    scr.y - d)
           /\ scr.maximized = Rect(scr.x_shift, 0, scr.x, scr.y - d)

C20_Witness ==
    /\ Ran
    /\ ~misbehaving
    /\ Len(screens) = 2
    /\ screens[1].y_shift = 120
    /\ screens[2].y_shift = 0
    /\ screens[1].left_half.pos_y = 0
    /\ screens[1].left_half.size_y = screens[2].left_half.size_y
    /\ screens[2].right_half.pos_x = screens[2].x \div 2 + 1920

\* C21: on monitors side by side, a window whose corrected pos_x lies in
\* [origin, origin + width) of the k-th monitor from the left has
\* current_screen k after _get_props.
C21_LocatedByExtent ==
    (Ran /\ query = "ok" /\ IsRow(monitors))
    => \A arranged \in {arranged_screens(monitors, main_screen, docks)} :
       \A k \in 0..(Len(arranged) - 1) :
          (/\ arranged[k + 1].x_shift <= window.pos_x
           /\ window.pos_x < arranged[k + 1].x_shift + arranged[k + 1].x)
          => located = k

\* C22: when _detect_dock_position runs (more than one screen, no main
\* screen named) and there is no 64x64 window, no screen is main.
C22_NoDockNoMain ==
    (Ran /\ Len(screens) > 1 /\ main_screen = "" /\ docks = <<>>)
    => \A i \in 1..Len(screens) : ~screens[i].main

\* the rows of the 64x64 windows at one horizontal shift
CandidateRowsAt(key) ==
    {docks[j].shift_y : j \in {n \in 1..Len(docks) : docks[n].shift_x = key}}

\* where a horizontal shift first shows in the list
FirstSeen(key) ==
    CHOOSE j \in 1..Len(docks) :
        /\ docks[j].shift_x = key
        /\ \A n \in 1..(j - 1) : docks[n].shift_x # key

\* the shift with the most distinct rows, the first listed among equals
ExpectedWinner ==
    LET keys == {docks[j].shift_x : j \in 1..Len(docks)}
        best == {k \in keys :
                   \A o \in keys :
                      Cardinality(CandidateRowsAt(o)) <= Cardinality(CandidateRowsAt(k))}
    IN CHOOSE k \in best : \A o \in best : FirstSeen(k) <= FirstSeen(o)

\* the monitor a screen was made from
MonitorOf(scr) ==
    monitors[CHOOSE i \in 1..Len(monitors) : monitors[i].sx = scr.x_shift]

\* C23: the dock is taken to be at the horizontal shift whose 64x64 windows
\* are in the most distinct rows, a row counted once, and among shifts with
\* equally many at the one listed first; the screen that holds it is main.
C23_DockWinner ==
    (Ran /\ main_screen = "" /\ Len(screens) > 1 /\ docks # <<>>)
    => \A i \in 1..Len(screens) :
          screens[i].main
          <=> /\ screens[i].x_shift <= ExpectedWinner
              /\ ExpectedWinner <= screens[i].x_shift + MonitorOf(screens[i]).x

C23_Witness ==
    /\ Ran
    /\ Len(docks) = 4
    /\ docks[1].shift_x = 100
    /\ docks[2].shift_x = 100
    /\ docks[1].shift_y = docks[2].shift_y
    /\ docks[3].shift_x = 3776
    /\ docks[4].shift_x = 3776
    /\ docks[3].shift_y # docks[4].shift_y
    /\ Len(screens) = 2
    /\ ~screens[1].main
    /\ screens[2].main

\* C24: with a main screen named and more than one monitor, a screen is main
\* exactly when its monitor has that name (none when no monitor has it),
\* whatever 64x64 windows there are; with none named and one monitor, that
\* monitor's screen is main.
C24_MainWithoutDock ==
    Ran =>
      /\ (main_screen # "" /\ Len(monitors) > 1)
            => \A i \in 1..Len(screens) :
                  screens[i].main <=> MonitorOf(screens[i]).name = main_screen
      /\ (main_screen = "" /\ Len(monitors) = 1)
            => (Len(screens) = 1 /\ screens[1].main)

C24_Witness ==
    /\ Ran
    /\ main_screen = "DP-2"
    /\ Len(monitors) = 2
    /\ monitors[1].name = "DP-2"
    /\ docks # <<>>
    /\ docks[1].shift_x = 1920
    /\ Len(screens) = 2
    /\ ~screens[1].main
    /\ screens[2].main

\* a rectangle as get_coords hands it out for a misbehaving window
Shifted(rect) == [rect EXCEPT !.pos_y = MisbehavingShift]

\* C25: a misbehaving window read back where a cycle put it, at a layout's
\* left half or right half with pos_y = 21, is classified left or right by
\* the next invocation.
C25_MisbehavingClassified ==
    (Ran /\ misbehaving /\ query = "ok")
    => \A layouts \in {Layouts} :
       \A i \in 1..Len(layouts) :
          /\ window = Shifted(layouts[i].left_half) => current_state = "left"
          /\ window = Shifted(layouts[i].right_half) => current_state = "right"

\* the last invocation read the window at one of the placements of a layout
\* and ran a command
PlacedAndMoved ==
    /\ pc = "done"
    /\ query = "ok"
    /\ ~misbehaving
    /\ IsRow(monitors)
    /\ \E i \in 1..Len(screens) :
          window \in {screens[i].left_half, screens[i].right_half,
                      screens[i].maximized}

\* C26: on monitors side by side, when a cycle moved a window that was at a
\* layout's left half, right half or maximized rectangle, a cycle the other
\* way puts it back at that rectangle, on the monitor it was on.
C26_Step ==
    (PlacedAndMoved /\ query' = "ok" /\ direction' # direction)
    => /\ pc' = "done"
       /\ reported' = ReportedAt(window)
       /\ current_screen' = located

C26_CyclesAreInverses == [][C26_Step]_vars

C26_Witness ==
    /\ pc = "done"
    /\ query = "ok"
    /\ ~misbehaving
    /\ IsRow(monitors)
    /\ direction = "left"
    /\ Len(screens) = 2
    /\ window = screens[2].left_half
    /\ located = 1
    /\ current_screen = 0
    /\ reported = ReportedAt(screens[1].right_half)

\* C27: a window at a layout's maximized rectangle is sent by cycle left to
\* that layout's left half and by cycle right to its right half; it is
\* classified maximized when the layout's x origin is 0 and not classified
\* otherwise, and cycle right resizes first only when it is classified.
C27_FromMaximized ==
    (Ran /\ query = "ok")
    => \A layouts \in {Layouts} :
       \A i \in 1..Len(layouts) :
          window = layouts[i].maximized
          => /\ current_state = IF layouts[i].x_shift = 0 THEN "maximized" ELSE "none"
             /\ pc = "done"
             /\ selected[2] = "none"
             /\ located = i - 1
             /\ current_screen = i - 1
             /\ Target = IF direction = "left"
                         THEN screens[i].left_half
                         ELSE screens[i].right_half
             /\ cmd = command(Target, selected[3])
             /\ selected[3] <=> (direction = "right" /\ layouts[i].x_shift = 0)

C27_Witness ==
    /\ pc = "done"
    /\ query = "ok"
    /\ direction = "right"
    /\ Len(screens) = 2
    /\ window = Layouts[2].maximized
    /\ current_state = "none"
    /\ current_screen = 1
    /\ cmd = command(screens[2].right_half, FALSE)

\* C28: an invocation on a non-empty list of screens that runs a command
\* uses a screen index within the list, at most one off the index found from
\* the window's position and off it only when the table asks for a monitor
\* move, and its one command is for one of the three rectangles of the
\* screen at that index.
C28_CommandWithinScreens ==
    (cmd # <<>> /\ direction # "none") =>
      /\ pc = "done"
      /\ 0 <= current_screen
      /\ current_screen < Len(screens)
      /\ current_screen - located \in {0 - 1, 0, 1}
      /\ current_screen # located => selected[2] # "none"
      /\ \E rect \in {screens[current_screen + 1].left_half,
                        screens[current_screen + 1].right_half,
                        screens[current_screen + 1].maximized} :
            cmd = command(rect, selected[3])
      /\ Cardinality({n \in 1..Len(cmd) : cmd[n].op = "windowmove"}) = 1
      /\ Cardinality({n \in 1..Len(cmd) : cmd[n].op = "windowsize"}) = 1

C28_Witness ==
    /\ pc = "done"
    /\ Len(screens) = 2
    /\ selected = <<"left_half", "right", FALSE>>
    /\ located = 0
    /\ current_screen = 1
    /\ cmd = command(screens[2].left_half, FALSE)

\* C29: the usable width is even for odd and even monitor widths, main or
\* not, dock covered or not, and the right half starts its own width from
\* the origin, one pixel more than the left half's width.
C29_EvenUsableWidth ==
    Ran =>
      \A i \in 1..Len(screens) :
         /\ screens[i].x % 2 = 0
         /\ 2 * screens[i].right_half.size_x = screens[i].x
         /\ screens[i].right_half.pos_x - screens[i].x_shift
               = screens[i].right_half.size_x
         /\ screens[i].right_half.size_x = screens[i].left_half.size_x + 1

C29_Witness ==
    /\ Ran
    /\ Len(monitors) = 2
    /\ monitors[2].x = 1921
    /\ Len(screens) = 2
    /\ screens[2].main
    /\ ~conf_file.dock_no
    /\ screens[2].x = 1854
    /\ screens[1].x = 1918
    /\ screens[2].right_half.pos_x = 1920 + 927

====
